---- MODULE Spec2Model ----
(***************************************************************************)
(* Model of futures_bot.py: the BasicBot facade over the Binance futures   *)
(* client, the two formatting helpers and the Streamlit main() handler.    *)
(*                                                                         *)
(* Text that the code parses (quantities, prices, order ids, balances,     *)
(* position amounts) is a sequence of one-character strings.  A Python     *)
(* float is the pair (num, exp) standing for num / 10^exp, normalised.     *)
(* The remote client is the environment: every remote call either returns  *)
(* a value, raises BinanceAPIException, or raises another exception        *)
(* (requests' ConnectionError / BinanceRequestException).                  *)
(***************************************************************************)
EXTENDS Integers, Sequences, FiniteSets, TLC

VARIABLES step, env, form, bot, invs, display, log, raised, fmtIn, fmtOut

vars == <<step, env, form, bot, invs, display, log, raised, fmtIn, fmtOut>>

(***************************************************************************)
(* Bounds                                                                  *)
(***************************************************************************)
MaxInputLen == 2
MaxRecords == 2
MaxListed == 2

(***************************************************************************)
(* Text and numbers                                                        *)
(***************************************************************************)
RECURSIVE SeqsUpTo(_, _)
SeqsUpTo(S, n) ==
    IF n = 0 THEN {<<>>}
    ELSE LET shorter == SeqsUpTo(S, n - 1)
         IN shorter \cup {Append(s, c) : s \in {t \in shorter : Len(t) = n - 1}, c \in S}

DigitChars == <<"0", "1", "2", "3", "4", "5", "6", "7", "8", "9">>

IsDigit(c) == \E i \in 1..10 : DigitChars[i] = c

DigitVal(c) == (CHOOSE i \in 1..10 : DigitChars[i] = c) - 1

RECURSIVE DigitsValue(_)
DigitsValue(ds) ==
    IF ds = <<>> THEN 0
    ELSE 10 * DigitsValue(SubSeq(ds, 1, Len(ds) - 1)) + DigitVal(ds[Len(ds)])

RECURSIVE Normalize(_, _)
Normalize(num, exp) ==
    IF num = 0 THEN [kind |-> "float", num |-> 0, exp |-> 0]
    ELSE IF exp > 0 /\ num % 10 = 0 THEN Normalize(num \div 10, exp - 1)
    ELSE [kind |-> "float", num |-> num, exp |-> exp]

ValueError == [kind |-> "ValueError"]

\* float(s): optional sign, decimal digits with at most one point, at least
\* one digit; anything else raises ValueError.
ParseFloat(s) ==
    LET signed == Len(s) > 0 /\ s[1] \in {"-", "+"}
        body   == IF signed THEN Tail(s) ELSE s
        dots   == {i \in 1..Len(body) : body[i] = "."}
        wellFormed == /\ \A i \in 1..Len(body) : IsDigit(body[i]) \/ body[i] = "."
                      /\ Cardinality(dots) <= 1
                      /\ \E i \in 1..Len(body) : IsDigit(body[i])
        mag    == DigitsValue(SelectSeq(body, IsDigit))
        frac   == IF dots = {} THEN 0 ELSE Len(body) - (CHOOSE i \in dots : TRUE)
    IN IF ~wellFormed THEN ValueError
       ELSE Normalize(IF signed /\ s[1] = "-" THEN 0 - mag ELSE mag, frac)

\* int(s): optional sign and at least one decimal digit, nothing else.
ParseInt(s) ==
    LET signed == Len(s) > 0 /\ s[1] \in {"-", "+"}
        body   == IF signed THEN Tail(s) ELSE s
        wellFormed == Len(body) > 0 /\ \A i \in 1..Len(body) : IsDigit(body[i])
        mag    == DigitsValue(body)
    IN IF ~wellFormed THEN ValueError
       ELSE [kind |-> "int", val |-> IF signed /\ s[1] = "-" THEN 0 - mag ELSE mag]

\* str.upper() on the symbols that can be typed into the form.
Upper(s) ==
    CASE s = "btcusdt" -> "BTCUSDT"
      [] s = "ethusdt" -> "ETHUSDT"
      [] s = "doge"    -> "DOGE"
      [] OTHER         -> s

(***************************************************************************)
(* Python values                                                           *)
(***************************************************************************)
None == [kind |-> "None"]

Val(kind, v) == [kind |-> kind, val |-> v]

\* Python truthiness of what the facade returns: None and [] are falsy.
Truthy(v) ==
    CASE v.kind = "None" -> FALSE
      [] v.kind = "list" -> v.val # <<>>
      [] v.kind = "bool" -> v.val
      [] OTHER           -> TRUE

(***************************************************************************)
(* The remote client: outcomes of one call                                 *)
(***************************************************************************)
ApiError == [kind |-> "BinanceAPIException"]

OtherError == [kind |-> "RequestException"]

Errors == {ApiError, OtherError}

Ok(v) == [kind |-> "ok", val |-> v]

ListedSymbols == {"BTCUSDT", "ETHUSDT"}

ExchangeInfos ==
    {[symbols |-> l] : l \in SeqsUpTo({[symbol |-> s] : s \in ListedSymbols}, MaxListed)}

OrderRecords ==
    {[orderId |-> 7, status |-> "NEW"], [orderId |-> 8, status |-> "FILLED"]}

AmountStrings ==
    {<<"0">>, <<"0", ".", "0">>, <<"-", "0">>, <<"1", ".", "5">>, <<"-", "2">>}

BalanceRecords ==
    {[asset |-> a, balance |-> b] : a \in {"USDT", "BTC"}, b \in AmountStrings}

PositionRecords ==
    {[symbol |-> s, positionAmt |-> a, entryPrice |-> <<"9", "0">>,
      unRealizedProfit |-> <<"-", "3">>] : s \in ListedSymbols, a \in AmountStrings}

BalanceLists == SeqsUpTo(BalanceRecords, MaxRecords)

PositionLists == SeqsUpTo(PositionRecords, MaxRecords)

ExchangeOutcomes == {Ok(e) : e \in ExchangeInfos} \cup Errors

OrderOutcomes == {Ok(o) : o \in OrderRecords} \cup Errors

BalanceOutcomes == {Ok(b) : b \in BalanceLists} \cup Errors

PositionOutcomes == {Ok(p) : p \in PositionLists} \cup Errors

(***************************************************************************)
(* Logging                                                                 *)
(***************************************************************************)
Info(msg) == [level |-> "INFO", msg |-> msg]

Error(msg) == [level |-> "ERROR", msg |-> msg]

(***************************************************************************)
(* BasicBot: the facade.  Each operator is one method call: its arguments  *)
(* and the outcome r of the remote call give the invocation record (what    *)
(* was sent, what came back, what was logged, what was returned or raised). *)
(***************************************************************************)
\* `except BinanceAPIException as e`
Caught(r) == r.kind = "BinanceAPIException"

NoReturn == [kind |-> "NoReturn"]

\* Variant: a failed call is issued a second time before giving up.
GuardedWithRetry(op, args, request, r, result, okMsg, errMsg) ==
    [op     |-> op,
     args   |-> args,
     remote |-> r,
     calls  |-> IF r.kind = "ok" THEN <<request>> ELSE <<request, request>>,
     ret    |-> IF r.kind = "ok" THEN result ELSE IF Caught(r) THEN None ELSE NoReturn,
     raised |-> IF r.kind = "ok" \/ Caught(r) THEN "none" ELSE r.kind,
     logs   |-> IF r.kind = "ok" THEN <<Info(okMsg)>>
                ELSE IF Caught(r) THEN <<Error(errMsg)>> ELSE <<>>]

\* try: v = call(); log info; return v / except BinanceAPIException: log
\* error; return None.  An exception of another type leaves the method.
Guarded(op, args, request, r, result, okMsg, errMsg) ==
    [op     |-> op,
     args   |-> args,
     remote |-> r,
     calls  |-> <<request>>,
     ret    |-> IF r.kind = "ok" THEN result ELSE IF Caught(r) THEN None ELSE NoReturn,
     raised |-> IF r.kind = "ok" \/ Caught(r) THEN "none" ELSE r.kind,
     logs   |-> IF r.kind = "ok" THEN <<Info(okMsg)>>
                ELSE IF Caught(r) THEN <<Error(errMsg)>> ELSE <<>>]

Get_account_balance(r) ==
    Guarded("get_account_balance", [none |-> TRUE],
            [endpoint |-> "futures_account_balance"], r,
            IF r.kind = "ok" THEN Val("list", r.val) ELSE None,
            "Account balance retrieved successfully",
            "Failed to get account balance: %s")

Validate_symbol(symbol, r) ==
    LET request == [endpoint |-> "futures_exchange_info"]
        listed  == r.kind = "ok" /\ \E i \in 1..Len(r.val.symbols) : r.val.symbols[i].symbol = symbol
    IN [op     |-> "validate_symbol",
        args   |-> [symbol |-> symbol],
        remote |-> r,
        calls  |-> <<request>>,
        ret    |-> IF r.kind = "ok" THEN Val("bool", listed)
                   ELSE IF Caught(r) THEN Val("bool", FALSE) ELSE NoReturn,
        raised |-> IF r.kind = "ok" \/ Caught(r) THEN "none" ELSE r.kind,
        logs   |-> IF r.kind = "ok"
                   THEN IF listed THEN <<Info("Symbol %s validated for futures trading")>>
                        ELSE <<Error("Invalid futures symbol: %s")>>
                   ELSE IF Caught(r) THEN <<Error("Symbol validation error: %s")>> ELSE <<>>]

MarketOrderRequest(symbol, side, quantity) ==
    [endpoint |-> "futures_create_order", symbol |-> symbol, side |-> side,
     type |-> "MARKET", quantity |-> quantity]

LimitOrderRequest(symbol, side, quantity, price) ==
    [endpoint |-> "futures_create_order", symbol |-> symbol, side |-> side,
     type |-> "LIMIT", timeInForce |-> "GTC", quantity |-> quantity, price |-> price]

\* Variant: the two prices are passed in each other's place.
StopLimitOrderRequestSwapped(symbol, side, quantity, stop_price, limit_price) ==
    [endpoint |-> "futures_create_order", symbol |-> symbol, side |-> side,
     type |-> "STOP", timeInForce |-> "GTC", quantity |-> quantity,
     price |-> stop_price, stopPrice |-> limit_price, workingType |-> "MARK_PRICE"]

StopLimitOrderRequest(symbol, side, quantity, stop_price, limit_price) ==
    [endpoint |-> "futures_create_order", symbol |-> symbol, side |-> side,
     type |-> "STOP", timeInForce |-> "GTC", quantity |-> quantity,
     price |-> limit_price, stopPrice |-> stop_price, workingType |-> "MARK_PRICE"]

Place_market_order(symbol, side, quantity, r) ==
    Guarded("place_market_order",
            [symbol |-> symbol, side |-> side, quantity |-> quantity],
            MarketOrderRequest(symbol, side, quantity), r,
            IF r.kind = "ok" THEN Val("dict", r.val) ELSE None,
            "Futures market order placed: %s", "Futures market order error: %s")

Place_limit_order(symbol, side, quantity, price, r) ==
    Guarded("place_limit_order",
            [symbol |-> symbol, side |-> side, quantity |-> quantity, price |-> price],
            LimitOrderRequest(symbol, side, quantity, price), r,
            IF r.kind = "ok" THEN Val("dict", r.val) ELSE None,
            "Futures limit order placed: %s", "Futures limit order error: %s")

Place_stop_limit_order(symbol, side, quantity, stop_price, limit_price, r) ==
    Guarded("place_stop_limit_order",
            [symbol |-> symbol, side |-> side, quantity |-> quantity,
             stop_price |-> stop_price, limit_price |-> limit_price],
            StopLimitOrderRequest(symbol, side, quantity, stop_price, limit_price), r,
            IF r.kind = "ok" THEN Val("dict", r.val) ELSE None,
            "Futures stop-limit order placed: %s", "Futures stop-limit order error: %s")

Get_order_status(symbol, order_id, r) ==
    Guarded("get_order_status", [symbol |-> symbol, order_id |-> order_id],
            [endpoint |-> "futures_get_order", symbol |-> symbol, orderId |-> order_id], r,
            IF r.kind = "ok" THEN Val("dict", r.val) ELSE None,
            "Futures order status: %s", "Futures order status error: %s")

\* Variant: the comparison is inverted.
RECURSIVE FilterBySymbolInverted(_, _)
FilterBySymbolInverted(positions, symbol) ==
    IF positions = <<>> THEN <<>>
    ELSE LET rest == FilterBySymbolInverted(Tail(positions), symbol)
         IN IF Head(positions).symbol # symbol THEN <<Head(positions)>> \o rest ELSE rest

\* [p for p in positions if p['symbol'] == symbol]
RECURSIVE FilterBySymbol(_, _)
FilterBySymbol(positions, symbol) ==
    IF positions = <<>> THEN <<>>
    ELSE LET rest == FilterBySymbol(Tail(positions), symbol)
         IN IF Head(positions).symbol = symbol THEN <<Head(positions)>> \o rest ELSE rest

\* symbol is None or Val("str", s); `if symbol:` takes the filtering branch
\* only for a non-empty string.
Get_position_info(symbol, r) ==
    Guarded("get_position_info", [symbol |-> symbol],
            [endpoint |-> "futures_position_information"], r,
            IF r.kind # "ok" THEN None
            ELSE IF symbol.kind = "str" /\ symbol.val # ""
                 THEN Val("list", FilterBySymbol(r.val, symbol.val))
                 ELSE Val("list", r.val),
            "Position information retrieved", "Position information error: %s")

(***************************************************************************)
(* Formatting helpers.  The result is the sequence of string fragments the *)
(* code concatenates; "\n" is a fragment of its own.                        *)
(***************************************************************************)
NL == "\n"

BalanceLine(item) ==
    <<"Asset: ", item.asset, ", Balance: ">> \o item.balance \o <<NL>>

\* Variant: the test is `!= 0`, so negative balances are printed too.
RECURSIVE Format_balanceNonZero(_)
Format_balanceNonZero(balance_list) ==
    IF balance_list = <<>> THEN <<>>
    ELSE LET item == balance_list[Len(balance_list)]
             formatted == Format_balanceNonZero(SubSeq(balance_list, 1, Len(balance_list) - 1))
         IN IF ParseFloat(item.balance).num # 0
            THEN formatted \o BalanceLine(item)
            ELSE formatted

RECURSIVE Format_balance(_)
Format_balance(balance_list) ==
    IF balance_list = <<>> THEN <<>>
    ELSE LET item == balance_list[Len(balance_list)]
             formatted == Format_balance(SubSeq(balance_list, 1, Len(balance_list) - 1))
         IN IF ParseFloat(item.balance).num > 0
            THEN formatted \o BalanceLine(item)
            ELSE formatted

PositionBlock(position) ==
    <<"Symbol: ", position.symbol, NL>>
    \o <<"Position Amount: ">> \o position.positionAmt \o <<NL>>
    \o <<"Entry Price: ">> \o position.entryPrice \o <<NL>>
    \o <<"Unrealized PnL: ">> \o position.unRealizedProfit \o <<NL>>
    \o <<"-----------------------", NL>>

\* Variant: the test is `> 0`, so short positions are left out.
RECURSIVE PositionBlocksPositiveOnly(_)
PositionBlocksPositiveOnly(positions) ==
    IF positions = <<>> THEN <<>>
    ELSE LET position == positions[Len(positions)]
             formatted == PositionBlocksPositiveOnly(SubSeq(positions, 1, Len(positions) - 1))
         IN IF ParseFloat(position.positionAmt).num > 0
            THEN formatted \o PositionBlock(position)
            ELSE formatted

RECURSIVE PositionBlocks(_)
PositionBlocks(positions) ==
    IF positions = <<>> THEN <<>>
    ELSE LET position == positions[Len(positions)]
             formatted == PositionBlocks(SubSeq(positions, 1, Len(positions) - 1))
         IN IF ParseFloat(position.positionAmt).num # 0
            THEN formatted \o PositionBlock(position)
            ELSE formatted

Format_position_info(positions) ==
    LET formatted == PositionBlocks(positions)
    IN IF formatted = <<>> THEN <<"No open positions found.">> ELSE formatted

(***************************************************************************)
(* main(): one Streamlit run.  A handler body is what the run did after    *)
(* the bot was constructed: the facade invocations in order, the messages   *)
(* displayed, the log lines (facade and front-end, in order) and the        *)
(* exception that ended the run, if any.                                    *)
(***************************************************************************)
StError(text) == [kind |-> "error", text |-> text]

StSuccess(text) == [kind |-> "success", text |-> text]

StText(frags) == [kind |-> "text", frags |-> frags]

Body(is, shown, frontLog) ==
    [invs    |-> is,
     display |-> shown,
     log     |-> (IF Len(is) > 0 THEN is[1].logs ELSE <<>>)
                 \o (IF Len(is) > 1 THEN is[2].logs ELSE <<>>) \o frontLog,
     raised  |-> IF Len(is) > 0 THEN is[Len(is)].raised ELSE "none"]

NoSubmit == Body(<<>>, <<>>, <<>>)

\* `if order: st.success(...) else: st.error(...)`; an exception that left
\* the facade leaves main() as well.
Outcome(is, okText, failText) ==
    LET last == is[Len(is)]
    IN IF last.raised # "none" THEN Body(is, <<>>, <<>>)
       ELSE IF Truthy(last.ret) THEN Body(is, <<StSuccess(okText)>>, <<>>)
       ELSE Body(is, <<StError(failText)>>, <<>>)

InvalidSymbol(v) ==
    IF v.raised # "none" THEN Body(<<v>>, <<>>, <<>>)
    ELSE Body(<<v>>, <<StError("Invalid futures symbol!")>>, <<>>)

Validated(v) == v.raised = "none" /\ v.ret.val

\* Variant: a quantity that does not parse is sent as 0 instead of rejected.
SubmitMarketOrderUnchecked(f, rv, rp) ==
    LET symbol == Upper(f.symbol)
        v == Validate_symbol(symbol, rv)
        parsed == ParseFloat(f.quantity)
        quantity == IF parsed = ValueError THEN Normalize(0, 0) ELSE parsed
    IN IF ~Validated(v) THEN InvalidSymbol(v)
       ELSE Outcome(<<v, Place_market_order(symbol, f.side, quantity, rp)>>,
                    "Futures Market Order placed",
                    "Failed to place market order. Check logs for details.")

SubmitMarketOrder(f, rv, rp) ==
    LET symbol == Upper(f.symbol)
        v == Validate_symbol(symbol, rv)
        quantity == ParseFloat(f.quantity)
    IN IF ~Validated(v) THEN InvalidSymbol(v)
       ELSE IF quantity = ValueError
            THEN Body(<<v>>, <<StError("Invalid quantity!")>>,
                      <<Error("Invalid quantity input: %s")>>)
       ELSE Outcome(<<v, Place_market_order(symbol, f.side, quantity, rp)>>,
                    "Futures Market Order placed",
                    "Failed to place market order. Check logs for details.")

\* Variant: the result of validate_symbol is shown but does not stop the order.
SubmitLimitOrderUnvalidated(f, rv, rp) ==
    LET symbol == Upper(f.symbol)
        v == Validate_symbol(symbol, rv)
        quantity == ParseFloat(f.quantity)
        price == ParseFloat(f.price)
    IN IF v.raised # "none" THEN InvalidSymbol(v)
       ELSE IF quantity = ValueError \/ price = ValueError
            THEN Body(<<v>>, <<StError("Invalid quantity or price!")>>,
                      <<Error("Invalid input - quantity: %s, price: %s")>>)
       ELSE Outcome(<<v, Place_limit_order(symbol, f.side, quantity, price, rp)>>,
                    "Futures Limit Order placed",
                    "Failed to place limit order. Check logs for details.")

SubmitLimitOrder(f, rv, rp) ==
    LET symbol == Upper(f.symbol)
        v == Validate_symbol(symbol, rv)
        quantity == ParseFloat(f.quantity)
        price == ParseFloat(f.price)
    IN IF ~Validated(v) THEN InvalidSymbol(v)
       ELSE IF quantity = ValueError \/ price = ValueError
            THEN Body(<<v>>, <<StError("Invalid quantity or price!")>>,
                      <<Error("Invalid input - quantity: %s, price: %s")>>)
       ELSE Outcome(<<v, Place_limit_order(symbol, f.side, quantity, price, rp)>>,
                    "Futures Limit Order placed",
                    "Failed to place limit order. Check logs for details.")

SubmitStopLimitOrder(f, rv, rp) ==
    LET symbol == Upper(f.symbol)
        v == Validate_symbol(symbol, rv)
        quantity == ParseFloat(f.quantity)
        stop_price == ParseFloat(f.stop_price)
        limit_price == ParseFloat(f.limit_price)
    IN IF ~Validated(v) THEN InvalidSymbol(v)
       ELSE IF quantity = ValueError \/ stop_price = ValueError \/ limit_price = ValueError
            THEN Body(<<v>>, <<StError("Invalid quantity, stop price, or limit price!")>>,
                      <<Error("Invalid input - quantity: %s, stop_price: %s, limit_price: %s")>>)
       ELSE Outcome(<<v, Place_stop_limit_order(symbol, f.side, quantity,
                                                stop_price, limit_price, rp)>>,
                    "Futures Stop-Limit Order placed",
                    "Failed to place stop-limit order. Check logs for details.")

CheckStatus(f, r) ==
    LET order_id == ParseInt(f.order_id)
    IN IF order_id = ValueError
       THEN Body(<<>>, <<StError("Invalid order ID!")>>, <<Error("Invalid order ID input: %s")>>)
       ELSE Outcome(<<Get_order_status(Upper(f.symbol), order_id.val, r)>>,
                    "Futures Order Status",
                    "Failed to retrieve order status. Check logs for details.")

FetchBalance(r) ==
    LET b == Get_account_balance(r)
    IN IF b.raised # "none" THEN Body(<<b>>, <<>>, <<>>)
       ELSE IF Truthy(b.ret)
            THEN Body(<<b>>, <<StSuccess("Futures Account Balance:"),
                               StText(Format_balance(b.ret.val))>>, <<>>)
       ELSE Body(<<b>>, <<StError("Failed to retrieve account balance. Check logs for details.")>>,
                 <<>>)

FetchPositions(f, r) ==
    LET symbol == Upper(f.symbol)
        p == Get_position_info(IF symbol # "" THEN Val("str", symbol) ELSE None, r)
    IN IF p.raised # "none" THEN Body(<<p>>, <<>>, <<>>)
       ELSE IF Truthy(p.ret)
            THEN Body(<<p>>, <<StSuccess("Futures Position Information:"),
                               StText(Format_position_info(p.ret.val))>>, <<>>)
       ELSE Body(<<p>>, <<StError("Failed to retrieve position information. Check logs for details.")>>,
                 <<>>)

\* os.getenv gives None or a string; `not X` holds of None and of "".
Unset(v) == v.kind = "None" \/ v.val = ""

\* Variant: `and` in place of `or`.
CredentialsBothMissing(api_key, api_secret) == Unset(api_key) /\ Unset(api_secret)

CredentialsMissing(api_key, api_secret) == Unset(api_key) \/ Unset(api_secret)

\* Lines 152-162, then the selected operation's form.
Main(e, body) ==
    IF CredentialsMissing(e.API_KEY, e.API_SECRET)
    THEN [bot |-> FALSE, invs |-> <<>>, raised |-> "none", log |-> <<>>,
          display |-> <<StError("API Key or Secret not found in .env file!")>>]
    ELSE [bot |-> TRUE, invs |-> body.invs, raised |-> body.raised,
          log |-> <<Info("Futures Bot initialized with Testnet: %s")>> \o body.log,
          display |-> body.display]

(***************************************************************************)
(* Inputs                                                                  *)
(***************************************************************************)
EnvValues == {None, Val("str", ""), Val("str", "k")}

Envs == [API_KEY : EnvValues, API_SECRET : EnvValues]

SymbolInputs == {"BTCUSDT", "btcusdt", "doge", ""}

Sides == {"BUY", "SELL"}

InputChars == {"1", ".", "x"}

TextInputs == SeqsUpTo(InputChars, MaxInputLen)

PriceInputs == {<<>>, <<"x">>, <<"2">>, <<"2", ".", "5">>}

MarketForms ==
    [operation : {"Place Market Order"}, symbol : SymbolInputs, side : Sides,
     quantity : TextInputs, pressed : BOOLEAN]

LimitForms ==
    [operation : {"Place Limit Order"}, symbol : SymbolInputs, side : Sides,
     quantity : TextInputs, price : PriceInputs, pressed : BOOLEAN]

StopLimitForms ==
    [operation : {"Place Stop-Limit Order"}, symbol : SymbolInputs, side : Sides,
     quantity : TextInputs, stop_price : PriceInputs, limit_price : PriceInputs,
     pressed : BOOLEAN]

StatusForms ==
    [operation : {"Check Order Status"}, symbol : SymbolInputs, order_id : TextInputs,
     pressed : BOOLEAN]

BalanceForms == [operation : {"Get Account Balance"}, pressed : BOOLEAN]

PositionForms ==
    [operation : {"Get Position Information"}, symbol : SymbolInputs, pressed : BOOLEAN]

\* Arguments of direct calls of the facade.
ArgSymbols == {Upper(s) : s \in SymbolInputs}

ArgFloats == {ParseFloat(s) : s \in TextInputs \cup PriceInputs} \ {ValueError}

ArgOrderIds == {7, 8}

ArgOptSymbols == {None} \cup {Val("str", s) : s \in ArgSymbols}

(***************************************************************************)
(* State machine                                                           *)
(***************************************************************************)
NoEnv == [API_KEY |-> None, API_SECRET |-> None]

NoForm == [operation |-> "none"]

Init ==
    /\ step = "init"
    /\ env = NoEnv
    /\ form = NoForm
    /\ bot = FALSE
    /\ invs = <<>>
    /\ display = <<>>
    /\ log = <<>>
    /\ raised = "none"
    /\ fmtIn = <<>>
    /\ fmtOut = <<>>

\* Everything is synchronous: an operation starts only when no other is in
\* progress, and its record is dropped when the caller has consumed it.
Idle == step = "init"

\* A caller other than main() invokes one facade method on a constructed bot.
Invoke(inv) ==
    /\ step' = inv.op
    /\ env' = NoEnv
    /\ form' = NoForm
    /\ bot' = TRUE
    /\ invs' = <<inv>>
    /\ display' = <<>>
    /\ log' = inv.logs
    /\ raised' = inv.raised
    /\ fmtIn' = <<>>
    /\ fmtOut' = <<>>

CallGetAccountBalance ==
    /\ Idle
    /\ \E r \in BalanceOutcomes : Invoke(Get_account_balance(r))

CallValidateSymbol ==
    /\ Idle
    /\ \E symbol \in ArgSymbols, r \in ExchangeOutcomes : Invoke(Validate_symbol(symbol, r))

CallPlaceMarketOrder ==
    /\ Idle
    /\ \E symbol \in ArgSymbols, side \in Sides, quantity \in ArgFloats, r \in OrderOutcomes :
           Invoke(Place_market_order(symbol, side, quantity, r))

CallPlaceLimitOrder ==
    /\ Idle
    /\ \E symbol \in ArgSymbols, side \in Sides, quantity \in ArgFloats, price \in ArgFloats,
          r \in OrderOutcomes :
           Invoke(Place_limit_order(symbol, side, quantity, price, r))

CallPlaceStopLimitOrder ==
    /\ Idle
    /\ \E symbol \in ArgSymbols, side \in Sides, quantity \in ArgFloats,
          stop_price \in ArgFloats, limit_price \in ArgFloats, r \in OrderOutcomes :
           Invoke(Place_stop_limit_order(symbol, side, quantity, stop_price, limit_price, r))

CallGetOrderStatus ==
    /\ Idle
    /\ \E symbol \in ArgSymbols, order_id \in ArgOrderIds, r \in OrderOutcomes :
           Invoke(Get_order_status(symbol, order_id, r))

CallGetPositionInfo ==
    /\ Idle
    /\ \E symbol \in ArgOptSymbols, r \in PositionOutcomes : Invoke(Get_position_info(symbol, r))

Format(name, input, output) ==
    /\ step' = name
    /\ fmtIn' = input
    /\ fmtOut' = output
    /\ env' = NoEnv
    /\ form' = NoForm
    /\ bot' = FALSE
    /\ invs' = <<>>
    /\ display' = <<>>
    /\ log' = <<>>
    /\ raised' = "none"

CallFormatBalance ==
    /\ Idle
    /\ \E balance_list \in BalanceLists :
           Format("format_balance", balance_list, Format_balance(balance_list))

CallFormatPositionInfo ==
    /\ Idle
    /\ \E positions \in PositionLists :
           Format("format_position_info", positions, Format_position_info(positions))

\* One run of main() with environment e and form f.
Run(e, f, run) ==
    /\ step' = "main"
    /\ env' = e
    /\ form' = f
    /\ bot' = run.bot
    /\ invs' = run.invs
    /\ display' = run.display
    /\ log' = run.log
    /\ raised' = run.raised
    /\ fmtIn' = <<>>
    /\ fmtOut' = <<>>

\* The remote client is reached only when the bot exists and the button is pressed.
Reaches(e, f) == ~CredentialsMissing(e.API_KEY, e.API_SECRET) /\ f.pressed

MainMarketOrder ==
    /\ Idle
    /\ \E e \in Envs, f \in MarketForms :
           \E rv \in IF Reaches(e, f) THEN ExchangeOutcomes ELSE {ApiError},
              rp \in IF Reaches(e, f) THEN OrderOutcomes ELSE {ApiError} :
               Run(e, f, Main(e, IF f.pressed THEN SubmitMarketOrder(f, rv, rp) ELSE NoSubmit))

MainLimitOrder ==
    /\ Idle
    /\ \E e \in Envs, f \in LimitForms :
           \E rv \in IF Reaches(e, f) THEN ExchangeOutcomes ELSE {ApiError},
              rp \in IF Reaches(e, f) THEN OrderOutcomes ELSE {ApiError} :
               Run(e, f, Main(e, IF f.pressed THEN SubmitLimitOrder(f, rv, rp) ELSE NoSubmit))

MainStopLimitOrder ==
    /\ Idle
    /\ \E e \in Envs, f \in StopLimitForms :
           \E rv \in IF Reaches(e, f) THEN ExchangeOutcomes ELSE {ApiError},
              rp \in IF Reaches(e, f) THEN OrderOutcomes ELSE {ApiError} :
               Run(e, f, Main(e, IF f.pressed THEN SubmitStopLimitOrder(f, rv, rp) ELSE NoSubmit))

MainCheckStatus ==
    /\ Idle
    /\ \E e \in Envs, f \in StatusForms :
           \E r \in IF Reaches(e, f) THEN OrderOutcomes ELSE {ApiError} :
               Run(e, f, Main(e, IF f.pressed THEN CheckStatus(f, r) ELSE NoSubmit))

MainAccountBalance ==
    /\ Idle
    /\ \E e \in Envs, f \in BalanceForms :
           \E r \in IF Reaches(e, f) THEN BalanceOutcomes ELSE {ApiError} :
               Run(e, f, Main(e, IF f.pressed THEN FetchBalance(r) ELSE NoSubmit))

MainPositionInfo ==
    /\ Idle
    /\ \E e \in Envs, f \in PositionForms :
           \E r \in IF Reaches(e, f) THEN PositionOutcomes ELSE {ApiError} :
               Run(e, f, Main(e, IF f.pressed THEN FetchPositions(f, r) ELSE NoSubmit))

\* The call has returned (or the script run has ended); the next interaction
\* starts from scratch: nothing of a run is kept by the facade or by main().
Return ==
    /\ ~Idle
    /\ step' = "init"
    /\ env' = NoEnv
    /\ form' = NoForm
    /\ bot' = FALSE
    /\ invs' = <<>>
    /\ display' = <<>>
    /\ log' = <<>>
    /\ raised' = "none"
    /\ fmtIn' = <<>>
    /\ fmtOut' = <<>>

Next ==
    \/ CallGetAccountBalance
    \/ CallValidateSymbol
    \/ CallPlaceMarketOrder
    \/ CallPlaceLimitOrder
    \/ CallPlaceStopLimitOrder
    \/ CallGetOrderStatus
    \/ CallGetPositionInfo
    \/ CallFormatBalance
    \/ CallFormatPositionInfo
    \/ MainMarketOrder
    \/ MainLimitOrder
    \/ MainStopLimitOrder
    \/ MainCheckStatus
    \/ MainAccountBalance
    \/ MainPositionInfo
    \/ Return

Spec == Init /\ [][Next]_vars

(***************************************************************************)
(* Properties                                                              *)
(***************************************************************************)
Levels(entries, level) == {i \in 1..Len(entries) : entries[i].level = level}

OrderOps == {"place_market_order", "place_limit_order", "place_stop_limit_order"}

OrderForms == {"Place Market Order", "Place Limit Order", "Place Stop-Limit Order"}

Sentinel(op) == IF op = "validate_symbol" THEN Val("bool", FALSE) ELSE None

RemoteFailed(v) == v.remote.kind # "ok"

\* All remote calls of the last step, in the order they were issued.
RECURSIVE CallsOf(_)
CallsOf(is) == IF is = <<>> THEN <<>> ELSE Head(is).calls \o CallsOf(Tail(is))

CreateOrderCalls(is) ==
    {i \in 1..Len(CallsOf(is)) : CallsOf(is)[i].endpoint = "futures_create_order"}

\* C1: whenever the remote call of a facade operation raises an error, the
\* operation does not propagate it, returns its sentinel (False for
\* validate_symbol, None otherwise) and logs exactly one ERROR entry and no
\* INFO entry.
C1_RemoteErrorGivesSentinel ==
    \A i \in 1..Len(invs) :
        RemoteFailed(invs[i]) =>
            /\ invs[i].raised = "none"
            /\ invs[i].ret = Sentinel(invs[i].op)
            /\ Cardinality(Levels(invs[i].logs, "ERROR")) = 1
            /\ Levels(invs[i].logs, "INFO") = {}

RecordOps ==
    {"get_account_balance", "place_market_order", "place_limit_order",
     "place_stop_limit_order", "get_order_status", "get_position_info"}

Succeeded(v) == v.op \in RecordOps /\ v.remote.kind = "ok"

\* C2 as stated: when the remote call succeeds, every record-returning facade
\* operation, get_position_info with a symbol included, returns exactly the
\* remote value.
C2_ReturnsRemoteValueUnchanged ==
    \A i \in 1..Len(invs) :
        Succeeded(invs[i]) => invs[i].ret.val = invs[i].remote.val

Filtering(v) ==
    v.op = "get_position_info" /\ v.args.symbol.kind = "str" /\ v.args.symbol.val # ""

\* C2 amended: when the remote call succeeds the facade returns the remote
\* value unchanged, except that get_position_info with a non-empty symbol
\* returns the remote records of that symbol, in the remote order.
C2_ReturnsRemoteValueOrItsSymbolRows ==
    \A i \in 1..Len(invs) :
        Succeeded(invs[i]) =>
            IF Filtering(invs[i])
            THEN LET Wanted(p) == p.symbol = invs[i].args.symbol.val
                 IN invs[i].ret.val = SelectSeq(invs[i].remote.val, Wanted)
            ELSE invs[i].ret.val = invs[i].remote.val

C2_FilteredPositionsReturned ==
    /\ step = "get_position_info"
    /\ Filtering(invs[1])
    /\ invs[1].remote.kind = "ok"
    /\ invs[1].ret.val # <<>>
    /\ Len(invs[1].ret.val) < Len(invs[1].remote.val)

\* C3: validate_symbol returns True iff the instrument-list call succeeds and
\* the symbol is the `symbol` field of an entry; it returns False when the
\* symbol is absent and False when the remote call raises an error.
C3_ValidateSymbolIffListed ==
    \A i \in 1..Len(invs) :
        invs[i].op = "validate_symbol" =>
            LET v == invs[i]
                listed == /\ v.remote.kind = "ok"
                          /\ v.args.symbol \in
                                 {v.remote.val.symbols[k].symbol : k \in 1..Len(v.remote.val.symbols)}
            IN /\ (v.ret = Val("bool", TRUE)) <=> listed
               /\ ~listed => v.ret = Val("bool", FALSE)

\* C4: every request of place_limit_order and place_stop_limit_order carries
\* time-in-force GTC, a stop-limit request also working type MARK_PRICE, and
\* symbol, side, quantity and price are the caller's arguments (stop-limit:
\* price is the limit price, stopPrice the stop price).
C4_OrderRequestFields ==
    \A i \in 1..Len(invs) :
        LET v == invs[i]
        IN /\ v.op = "place_limit_order" =>
                  \A k \in 1..Len(v.calls) :
                      /\ v.calls[k].timeInForce = "GTC"
                      /\ v.calls[k].symbol = v.args.symbol
                      /\ v.calls[k].side = v.args.side
                      /\ v.calls[k].quantity = v.args.quantity
                      /\ v.calls[k].price = v.args.price
           /\ v.op = "place_stop_limit_order" =>
                  \A k \in 1..Len(v.calls) :
                      /\ v.calls[k].timeInForce = "GTC"
                      /\ v.calls[k].workingType = "MARK_PRICE"
                      /\ v.calls[k].symbol = v.args.symbol
                      /\ v.calls[k].side = v.args.side
                      /\ v.calls[k].quantity = v.args.quantity
                      /\ v.calls[k].price = v.args.limit_price
                      /\ v.calls[k].stopPrice = v.args.stop_price

C4_StopLimitSent ==
    /\ step = "place_stop_limit_order"
    /\ Len(invs[1].calls) = 1
    /\ invs[1].args.stop_price # invs[1].args.limit_price

\* What float() takes: the text of a quantity, without sign, is digits with at
\* most one point and at least one digit.
Numeric(s) ==
    LET body == IF Len(s) > 0 /\ s[1] \in {"+", "-"} THEN Tail(s) ELSE s
    IN /\ \E i \in 1..Len(body) : IsDigit(body[i])
       /\ \A i \in 1..Len(body) : IsDigit(body[i]) \/ body[i] = "."
       /\ \A i, j \in 1..Len(body) : body[i] = "." /\ body[j] = "." => i = j

InvalidInputText ==
    {"Invalid quantity!", "Invalid quantity or price!",
     "Invalid quantity, stop price, or limit price!"}

InvalidInputShown ==
    /\ Len(display) = 1
    /\ display[1].kind = "error"
    /\ display[1].text \in InvalidInputText
    /\ Cardinality(Levels(log, "ERROR")) = 1

\* An order form submitted (bot constructed, button pressed) with a quantity
\* that is not a number.
BadQuantitySubmitted ==
    /\ step = "main"
    /\ bot
    /\ form.operation \in OrderForms
    /\ form.pressed
    /\ ~Numeric(form.quantity)

\* C5 as stated: an order submitted with a non-numeric quantity gives the
\* invalid-input failure (message and one error log entry) and no remote call
\* of any kind is made, whatever the symbol.
C5_BadQuantityNoRemoteCall ==
    BadQuantitySubmitted => InvalidInputShown /\ CallsOf(invs) = <<>>

\* C5 amended: an order submitted with a non-numeric quantity never issues an
\* order-creation call; the symbol is validated first (one instrument-list
\* call), and when validate_symbol returns True the outcome is the
\* invalid-input failure (message and exactly one error log entry).
C5_BadQuantityNoOrderCall ==
    BadQuantitySubmitted =>
        /\ CreateOrderCalls(invs) = {}
        /\ Len(CallsOf(invs)) = 1
        /\ CallsOf(invs)[1].endpoint = "futures_exchange_info"
        /\ invs[1].ret = Val("bool", TRUE) => InvalidInputShown

C5_BadQuantityRejected ==
    /\ BadQuantitySubmitted
    /\ invs[1].ret = Val("bool", TRUE)
    /\ InvalidInputShown

\* C6: in a run of main() where the API key or the secret is unset or empty,
\* the error is displayed and nothing else happens: the client is not
\* constructed, no facade operation runs, no remote call is made.
C6_MissingCredentialsHalt ==
    (/\ step = "main"
     /\ \/ env.API_KEY \in {None, Val("str", "")}
        \/ env.API_SECRET \in {None, Val("str", "")})
        => /\ display = <<StError("API Key or Secret not found in .env file!")>>
           /\ ~bot
           /\ invs = <<>>
           /\ CallsOf(invs) = <<>>
           /\ log = <<>>

C6_HaltedWithOneCredential ==
    /\ step = "main"
    /\ env.API_KEY = Val("str", "k")
    /\ env.API_SECRET = Val("str", "")
    /\ form.pressed
    /\ ~bot

\* C7: every invocation of a facade operation issues exactly one remote call,
\* whether the call succeeds or fails.
C7_OneRemoteCallPerInvocation ==
    \A i \in 1..Len(invs) : Len(invs[i].calls) = 1

C7_FailedCallNotRetried ==
    /\ step = "get_order_status"
    /\ invs[1].remote = ApiError
    /\ Len(invs[1].calls) = 1

NonZeroDigits == {"1", "2", "3", "4", "5", "6", "7", "8", "9"}

\* A decimal string denotes a nonzero number iff one of its digits is not 0.
NonZeroAmount(s) == \E i \in 1..Len(s) : s[i] \in NonZeroDigits

PositiveAmount(s) == NonZeroAmount(s) /\ s[1] # "-"

RECURSIVE Concat(_)
Concat(ss) == IF ss = <<>> THEN <<>> ELSE Head(ss) \o Concat(Tail(ss))

Lines(frags) == Cardinality({i \in 1..Len(frags) : frags[i] = NL})

OpenPosition(p) == NonZeroAmount(p.positionAmt)

ExpectedBlock(p) ==
    Concat(<< <<"Symbol: ", p.symbol, NL>>,
              <<"Position Amount: ">>, p.positionAmt, <<NL>>,
              <<"Entry Price: ">>, p.entryPrice, <<NL>>,
              <<"Unrealized PnL: ">>, p.unRealizedProfit, <<NL>>,
              <<"-----------------------", NL>> >>)

\* C8: format_position_info returns exactly "No open positions found." iff
\* no record has a nonzero positionAmt (the empty list included); otherwise
\* its output is, for exactly the records with nonzero positionAmt and in
\* input order, the symbol, amount, entry price and PnL lines and a separator.
C8_PositionFormatting ==
    step = "format_position_info" =>
        LET open == SelectSeq(fmtIn, OpenPosition)
        IN /\ (fmtOut = <<"No open positions found.">>) <=> (open = <<>>)
           /\ open # <<>> =>
                  /\ fmtOut = Concat([i \in 1..Len(open) |-> ExpectedBlock(open[i])])
                  /\ Lines(fmtOut) = 5 * Len(open)

C8_MixedPositionsFormatted ==
    /\ step = "format_position_info"
    /\ Len(fmtIn) = 2
    /\ ~OpenPosition(fmtIn[1])
    /\ OpenPosition(fmtIn[2])
    /\ fmtIn[2].positionAmt[1] = "-"
    /\ Lines(fmtOut) = 5

HasBalance(item) == PositiveAmount(item.balance)

ExpectedBalanceLine(item) ==
    Concat(<< <<"Asset: ", item.asset, ", Balance: ">>, item.balance, <<NL>> >>)

\* C9: format_balance outputs one line per record whose balance is greater
\* than zero, in input order, and none for a zero or negative balance; the
\* number of lines is the number of records with a positive balance.
C9_BalanceFormatting ==
    step = "format_balance" =>
        LET shown == SelectSeq(fmtIn, HasBalance)
        IN /\ fmtOut = Concat([i \in 1..Len(shown) |-> ExpectedBalanceLine(shown[i])])
           /\ Lines(fmtOut) = Len(shown)

C9_MixedBalancesFormatted ==
    /\ step = "format_balance"
    /\ Len(fmtIn) = 2
    /\ fmtIn[1].balance[1] = "-"
    /\ NonZeroAmount(fmtIn[1].balance)
    /\ HasBalance(fmtIn[2])
    /\ Lines(fmtOut) = 1

OrderSubmitted ==
    step = "main" /\ bot /\ form.operation \in OrderForms /\ form.pressed

\* C10: within one submission of a market, limit or stop-limit order, an
\* order-creation call is issued only after validate_symbol has returned True
\* for the submitted symbol; if validate_symbol returns False no order-creation
\* call is issued and the invalid-symbol error is displayed.
C10_OrderOnlyAfterValidation ==
    OrderSubmitted =>
        /\ invs[1].op = "validate_symbol"
        /\ invs[1].args.symbol = Upper(form.symbol)
        /\ CallsOf(invs)[1].endpoint = "futures_exchange_info"
        /\ \A i \in 1..Len(invs) :
               invs[i].op \in OrderOps =>
                   /\ i > 1
                   /\ invs[1].ret = Val("bool", TRUE)
                   /\ invs[i].args.symbol = invs[1].args.symbol
        /\ \A k \in CreateOrderCalls(invs) : k > 1 /\ invs[1].ret = Val("bool", TRUE)
        /\ invs[1].ret = Val("bool", FALSE) =>
               /\ CreateOrderCalls(invs) = {}
               /\ display = <<StError("Invalid futures symbol!")>>

C10_OrderPlacedAfterValidation ==
    /\ OrderSubmitted
    /\ form.operation = "Place Limit Order"
    /\ Len(invs) = 2
    /\ invs[2].op = "place_limit_order"
    /\ CreateOrderCalls(invs) = {2}

====
